---- MODULE Spec2Model ----
(***************************************************************************)
(* The score service of the clicking-game backend: the POST /scores route  *)
(* (app/routes/score.py), the service create_score with its validation,    *)
(* metric computation and submission rate limit, the read queries          *)
(* get_user_best_score, get_user_scores, get_user_average_stats,           *)
(* get_leaderboard and get_user_personal_bests                             *)
(* (app/services/score_service.py), the scores table                       *)
(* (app/models/scores.py), and the creation and deletion of the users      *)
(* that own the scores (app/services/user_service.py).                     *)
(*                                                                         *)
(* A float is modelled as an exact fraction <<n, d>> in lowest terms, NaN  *)
(* as <<0, 0>>; an Optional value as the empty tuple (None) or a           *)
(* one-element tuple. A query whose result the store leaves open (rows     *)
(* that tie in the ORDER BY, no ORDER BY at all) is modelled by the set of *)
(* the results it may return.                                              *)
(***************************************************************************)
EXTENDS Integers, Sequences, FiniteSets, TLC

(* ----------------------------- bounds ---------------------------------- *)

\* largest number of rows of the scores table that the model explores
MaxScores == 3

\* last instant of the model's clock (seconds)
MaxTime == 2

(* ------------------------ values and helpers --------------------------- *)

None == <<>>

Some(x) == <<x>>

RECURSIVE GCD(_, _)
GCD(a, b) == IF b = 0 THEN a ELSE GCD(b, a % b)

\* the float a / b (b > 0, a >= 0), as a fraction in lowest terms
Frac(a, b) == LET g == GCD(a, b) IN <<a \div g, b \div g>>

\* float(i)
F(i) == <<i, 1>>

NaN == <<0, 0>>

IsNaN(x) == x[2] = 0

\* x <= y on floats: False when either is NaN
FloatLE(x, y) == ~IsNaN(x) /\ ~IsNaN(y) /\ x[1] * y[2] <= y[1] * x[2]

RECURSIVE SortedSeq(_)
SortedSeq(S) ==
    IF S = {} THEN <<>>
    ELSE LET m == CHOOSE x \in S : \A y \in S : x <= y
         IN <<m>> \o SortedSeq(S \ {m})

(* ---------------------- app/models/scores.py --------------------------- *)

TestMode == {"time", "clicks"}

VALID_MODE_VALUES ==
    [m \in TestMode |->
        IF m = "time" THEN {15, 30, 60, 120} ELSE {25, 50, 100, 200}]

(* ------------- rate-limit configuration (score_service.py) ------------- *)

\* the value of os.getenv(name): unset, or a text with what int() makes of it
Unset == [set |-> FALSE, parses |-> FALSE, value |-> 0]

EnvText(ok, n) == [set |-> TRUE, parses |-> ok, value |-> n]

DEFAULT_MAX_REQUESTS == 60

DEFAULT_WINDOW_SECONDS == 60

get_positive_int_env(raw, default) ==
    IF ~raw.set THEN default
    ELSE IF ~raw.parses THEN default
    ELSE IF raw.value < 0 THEN default
    ELSE raw.value

(* ------------------------------ state ---------------------------------- *)

VARIABLES
    env,      \* the two environment values read at import time
    now,      \* the clock, in seconds
    scores,   \* the scores table, in insertion order
    pc,       \* per request slot: "idle", "limit", "commit" or "refresh"
    call,     \* per request slot: caller and body of its current or last request
    session,  \* per request slot: the Score object held by the request's Session
    result,   \* per request slot: the response of its last finished request
    users,    \* the ids of the rows of the users table
    reply     \* the last read query or user operation, with what it returned

vars == <<env, now, scores, pc, call, session, result, users, reply>>

Procs == {1, 2}

Users == {"u1", "u2"}

SCORE_RATE_LIMIT_COUNT == get_positive_int_env(env.max_requests, DEFAULT_MAX_REQUESTS)

SCORE_RATE_LIMIT_WINDOW == get_positive_int_env(env.window_seconds, DEFAULT_WINDOW_SECONDS)

(* --------------------------- responses --------------------------------- *)

NoResult ==
    [exc |-> "none", status_code |-> 0, detail |-> <<>>, retry_after |-> None, score |-> 0]

Raise(exc, code, detail) ==
    [exc |-> exc, status_code |-> code, detail |-> detail, retry_after |-> None, score |-> 0]

InvalidModeError ==
    Raise("HTTPException", 400, <<"Invalid mode. Must be 'time' or 'clicks'">>)

InvalidInputScoreException(mode, mode_value, valid_values) ==
    Raise("InvalidInputScoreException", 400,
          <<"Invalid mode_value", mode_value, mode, SortedSeq(valid_values)>>)

InvalidScoreMetricsException(detail) ==
    Raise("InvalidScoreMetricsException", 400, <<detail>>)

DatabaseOperationException(detail) ==
    Raise("DatabaseOperationException", 500, <<detail>>)

TooManyRequestsException(detail, retry_after) ==
    [exc |-> "TooManyRequestsException", status_code |-> 429, detail |-> <<detail>>,
     retry_after |-> Some(retry_after), score |-> 0]

\* an SQLAlchemyError that no handler of the request catches
SQLAlchemyError == Raise("SQLAlchemyError", 500, <<"Internal Server Error">>)

ScoreResponse(new_score) ==
    [exc |-> "none", status_code |-> 201, detail |-> <<>>, retry_after |-> None,
     score |-> new_score.id]

(* ------------------------ app/schemas.py ------------------------------- *)

\* ScoreCreate keeps the six declared fields of the JSON body and ignores
\* every other key the caller sends
ScoreCreate(raw) ==
    [mode |-> raw.mode, mode_value |-> raw.mode_value,
     total_clicks |-> raw.total_clicks, correct_clicks |-> raw.correct_clicks,
     duration |-> raw.duration, consistency |-> raw.consistency]

(* ------------------- validation and derived metrics -------------------- *)

\* mutant of service_validate: mode_value looked up in the values of all modes
service_validate_any_mode(mode, mode_value, total_clicks, correct_clicks, duration, consistency) ==
    IF mode_value \notin UNION {VALID_MODE_VALUES[m] : m \in TestMode}
    THEN Some(InvalidInputScoreException(mode, mode_value, VALID_MODE_VALUES[mode]))
    ELSE IF total_clicks < 0 \/ correct_clicks < 0
    THEN Some(InvalidScoreMetricsException("Clicks must be non-negative"))
    ELSE IF correct_clicks > total_clicks
    THEN Some(InvalidScoreMetricsException("Correct clicks cannot exceed total clicks"))
    ELSE IF FloatLE(duration, F(0))
    THEN Some(InvalidScoreMetricsException("Duration must be greater than zero"))
    ELSE IF consistency # None
            /\ ~(FloatLE(F(0), consistency[1]) /\ FloatLE(consistency[1], F(100)))
    THEN Some(InvalidScoreMetricsException("Consistency must be between 0 and 100"))
    ELSE None

\* the guards of create_score (score_service.py), in the order of the code;
\* None when none of them raises
service_validate(mode, mode_value, total_clicks, correct_clicks, duration, consistency) ==
    IF mode_value \notin VALID_MODE_VALUES[mode]
    THEN Some(InvalidInputScoreException(mode, mode_value, VALID_MODE_VALUES[mode]))
    ELSE IF total_clicks < 0 \/ correct_clicks < 0
    THEN Some(InvalidScoreMetricsException("Clicks must be non-negative"))
    ELSE IF correct_clicks > total_clicks
    THEN Some(InvalidScoreMetricsException("Correct clicks cannot exceed total clicks"))
    ELSE IF FloatLE(duration, F(0))
    THEN Some(InvalidScoreMetricsException("Duration must be greater than zero"))
    ELSE IF consistency # None
            /\ ~(FloatLE(F(0), consistency[1]) /\ FloatLE(consistency[1], F(100)))
    THEN Some(InvalidScoreMetricsException("Consistency must be between 0 and 100"))
    ELSE None

\* the mode check of the route, then the guards of the service
request_validate(score_data) ==
    IF score_data.mode \notin {"time", "clicks"}
    THEN Some(InvalidModeError)
    ELSE service_validate(score_data.mode, score_data.mode_value,
                          score_data.total_clicks, score_data.correct_clicks,
                          score_data.duration, score_data.consistency)

\* mutant of compute_cps: floor division
compute_cps_floor(correct_clicks, duration) ==
    IF IsNaN(duration) THEN NaN
    ELSE F((correct_clicks * duration[2]) \div duration[1])

\* correct_clicks / duration, for the durations that pass the guards
compute_cps(correct_clicks, duration) ==
    IF IsNaN(duration) THEN NaN
    ELSE Frac(correct_clicks * duration[2], duration[1])

compute_accuracy(correct_clicks, total_clicks) ==
    IF total_clicks > 0 THEN Frac(correct_clicks * 100, total_clicks) ELSE F(0)

\* Score(...) as create_score builds it; id and created_at are column
\* defaults, filled in by the flush of the commit
NewScore(user_id, d) ==
    [id |-> 0, user_id |-> user_id, mode |-> d.mode, mode_value |-> d.mode_value,
     cps |-> compute_cps(d.correct_clicks, d.duration),
     total_clicks |-> d.total_clicks, correct_clicks |-> d.correct_clicks,
     duration |-> d.duration,
     accuracy |-> compute_accuracy(d.correct_clicks, d.total_clicks),
     consistency |-> d.consistency, created_at |-> 0]

(* ------------------------- the scores table ---------------------------- *)

Rows == {scores[i] : i \in 1..Len(scores)}

\* mutant of submission_count: the rows of every user are counted
submission_count_all_users(user_id, window_start) ==
    Cardinality({r \in Rows : r.created_at >= window_start})

\* select count(id) where user_id = :user_id and created_at >= :window_start
submission_count(user_id, window_start) ==
    Cardinality({r \in Rows : r.user_id = user_id /\ r.created_at >= window_start})

InFlight == {p \in Procs : pc[p] # "idle"}

(* ------------------------ the rate-limit guard ------------------------- *)

\* mutant of enforce_submission_rate_limit: refuses only above the limit
enforce_submission_rate_limit_above(user_id) ==
    IF SCORE_RATE_LIMIT_COUNT = 0 \/ SCORE_RATE_LIMIT_WINDOW = 0
    THEN None
    ELSE LET window_start == now - SCORE_RATE_LIMIT_WINDOW
         IN IF submission_count(user_id, window_start) > SCORE_RATE_LIMIT_COUNT
            THEN Some(TooManyRequestsException("Score submission rate limit exceeded",
                                               SCORE_RATE_LIMIT_WINDOW))
            ELSE None

\* mutant of enforce_submission_rate_limit: disabled only when both are 0
enforce_submission_rate_limit_both_zero(user_id) ==
    IF SCORE_RATE_LIMIT_COUNT = 0 /\ SCORE_RATE_LIMIT_WINDOW = 0
    THEN None
    ELSE LET window_start == now - SCORE_RATE_LIMIT_WINDOW
         IN IF submission_count(user_id, window_start) >= SCORE_RATE_LIMIT_COUNT
            THEN Some(TooManyRequestsException("Score submission rate limit exceeded",
                                               SCORE_RATE_LIMIT_WINDOW))
            ELSE None

\* mutant of enforce_submission_rate_limit: the scores that other requests
\* of the user hold uncommitted in their sessions are counted too
enforce_submission_rate_limit_pending(user_id) ==
    IF SCORE_RATE_LIMIT_COUNT = 0 \/ SCORE_RATE_LIMIT_WINDOW = 0
    THEN None
    ELSE LET window_start == now - SCORE_RATE_LIMIT_WINDOW
             pending == {p \in Procs : pc[p] = "commit" /\ session[p][1].user_id = user_id}
         IN IF submission_count(user_id, window_start) + Cardinality(pending)
                    >= SCORE_RATE_LIMIT_COUNT
            THEN Some(TooManyRequestsException("Score submission rate limit exceeded",
                                               SCORE_RATE_LIMIT_WINDOW))
            ELSE None

\* mutant of enforce_submission_rate_limit: every row of the user is
\* counted, however old
enforce_submission_rate_limit_no_window(user_id) ==
    IF SCORE_RATE_LIMIT_COUNT = 0 \/ SCORE_RATE_LIMIT_WINDOW = 0
    THEN None
    ELSE IF submission_count(user_id, 0) >= SCORE_RATE_LIMIT_COUNT
         THEN Some(TooManyRequestsException("Score submission rate limit exceeded",
                                            SCORE_RATE_LIMIT_WINDOW))
         ELSE None

\* _enforce_submission_rate_limit: None when it returns, the exception
\* when it raises; it reads the clock and the table and writes nothing
enforce_submission_rate_limit(user_id) ==
    IF SCORE_RATE_LIMIT_COUNT = 0 \/ SCORE_RATE_LIMIT_WINDOW = 0
    THEN None
    ELSE LET window_start == now - SCORE_RATE_LIMIT_WINDOW
         IN IF submission_count(user_id, window_start) >= SCORE_RATE_LIMIT_COUNT
            THEN Some(TooManyRequestsException("Score submission rate limit exceeded",
                                               SCORE_RATE_LIMIT_WINDOW))
            ELSE None

(* --------------------- float arithmetic of the store ------------------- *)

\* x < y on Python floats: False when either is NaN
FloatLT(x, y) == ~IsNaN(x) /\ ~IsNaN(y) /\ x[1] * y[2] < y[1] * x[2]

\* x <= y in the order of a float column of the store, where NaN is equal
\* to itself and greater than every number (ORDER BY, max)
OrderLE(x, y) == IsNaN(y) \/ (~IsNaN(x) /\ x[1] * y[2] <= y[1] * x[2])

\* x + y on floats
FloatAdd(x, y) ==
    IF IsNaN(x) \/ IsNaN(y) THEN NaN
    ELSE Frac(x[1] * y[2] + y[1] * x[2], x[2] * y[2])

RECURSIVE FloatSum(_)
FloatSum(xs) == IF xs = <<>> THEN F(0) ELSE FloatAdd(Head(xs), FloatSum(Tail(xs)))

\* avg(column) over the values xs: NULL over no value at all
SqlAvg(xs) ==
    IF xs = <<>> THEN None
    ELSE LET sum == FloatSum(xs)
         IN IF IsNaN(sum) THEN Some(NaN) ELSE Some(Frac(sum[1], sum[2] * Len(xs)))

\* float(x or 0.0), x being a float or None
FloatOrZero(x) == IF x = None \/ x = Some(F(0)) THEN F(0) ELSE x[1]

Digits == <<"0", "1", "2", "3", "4", "5", "6", "7", "8", "9">>

\* mutant of Str: the last digit only
Str_last_digit(n) == Digits[(n % 10) + 1]

\* str(n), n >= 0
RECURSIVE Str(_)
Str(n) == IF n < 10 THEN Digits[n + 1] ELSE Str(n \div 10) \o Digits[(n % 10) + 1]

(* ---------------------- the read queries (score_service.py) ------------ *)

\* the primary keys of the rows of the table
Ids == 1..Len(scores)

\* the orders in which the store may return the rows S: every arrangement is
\* possible unless the ordering, a set of pairs <<i, j>>, puts row i
\* strictly before row j
Arrangements(S, before) ==
    {s \in [1..Cardinality(S) -> S] :
        /\ \A i, j \in 1..Cardinality(S) : i # j => s[i] # s[j]
        /\ \A i, j \in 1..Cardinality(S) : i < j => <<s[j], s[i]>> \notin before}

\* .limit(n), n >= 0
Limit(s, n) == [i \in 1..(IF n < Len(s) THEN n ELSE Len(s)) |-> s[i]]

\* desc(Score.cps)
CpsDesc == {<<i, j>> \in Ids \X Ids : ~OrderLE(scores[i].cps, scores[j].cps)}

\* desc(Score.created_at)
CreatedAtDesc == {<<i, j>> \in Ids \X Ids : scores[i].created_at > scores[j].created_at}

\* no ORDER BY
Unordered == {}

\* what a read query returns: rows (by primary key), or it raises
Returns(rows) == [exc |-> "none", status_code |-> 200, detail |-> <<>>, rows |-> rows]

(* get_user_best_score: the possible returns, None or the key of a row.    *)
(* The rows are ordered by cps alone, so among rows that tie on the         *)
(* greatest cps the store may return any.                                   *)
get_user_best_score(user_id, mode, mode_value) ==
    LET matching == {i \in Ids : /\ scores[i].user_id = user_id
                                 /\ scores[i].mode = mode
                                 /\ scores[i].mode_value = mode_value}
    IN {IF s = <<>> THEN None ELSE Some(s[1]) :
            s \in {Limit(a, 1) : a \in Arrangements(matching, CpsDesc)}}

\* mutant of get_user_scores: only a negative limit is refused
get_user_scores_negative_limit(user_id, mode, mode_value, limit) ==
    IF limit < 0
    THEN {[exc |-> "InvalidScoreMetricsException", status_code |-> 400,
           detail |-> <<"Limit must be greater than zero">>, rows |-> <<>>]}
    ELSE LET matching ==
                {i \in Ids : /\ scores[i].user_id = user_id
                             /\ mode # None => scores[i].mode = mode[1]
                             /\ (mode_value # None /\ mode_value[1] # 0)
                                    => scores[i].mode_value = mode_value[1]}
         IN {Returns(Limit(a, limit)) : a \in Arrangements(matching, CreatedAtDesc)}

(* get_user_scores: mode and mode_value are Optional; a filter is applied  *)
(* when its argument is truthy                                              *)
get_user_scores(user_id, mode, mode_value, limit) ==
    IF limit <= 0
    THEN {[exc |-> "InvalidScoreMetricsException", status_code |-> 400,
           detail |-> <<"Limit must be greater than zero">>, rows |-> <<>>]}
    ELSE LET matching ==
                {i \in Ids : /\ scores[i].user_id = user_id
                             /\ mode # None => scores[i].mode = mode[1]
                             /\ (mode_value # None /\ mode_value[1] # 0)
                                    => scores[i].mode_value = mode_value[1]}
         IN {Returns(Limit(a, limit)) : a \in Arrangements(matching, CreatedAtDesc)}

SECONDS_PER_DAY == 86400

\* the values of column col in the rows S, as a sequence
Column(S, col) == [k \in 1..Cardinality(S) |-> scores[SortedSeq(S)[k]][col]]

\* the floats of the values xs of a nullable column, none of them NULL
NotNull(xs) == [k \in 1..Len(xs) |-> xs[k][1]]

\* mutant of get_user_average_stats: the rows created at since are left out
get_user_average_stats_after(user_id, mode, mode_value, days) ==
    LET since == now - days * SECONDS_PER_DAY
        matching == {i \in Ids : /\ scores[i].user_id = user_id
                                 /\ scores[i].mode = mode
                                 /\ scores[i].mode_value = mode_value
                                 /\ scores[i].created_at > since}
        avg_cps == SqlAvg(Column(matching, "cps"))
        avg_accuracy == SqlAvg(Column(matching, "accuracy"))
        avg_consistency ==
            SqlAvg(NotNull(Column({i \in matching : scores[i].consistency # None},
                                  "consistency")))
        total_tests == Cardinality(matching)
    IN IF total_tests = 0
       THEN [avg_cps |-> F(0), avg_accuracy |-> F(0), avg_consistency |-> F(0),
             total_tests |-> 0]
       ELSE [avg_cps |-> FloatOrZero(avg_cps),
             avg_accuracy |-> FloatOrZero(avg_accuracy),
             avg_consistency |-> FloatOrZero(avg_consistency),
             total_tests |-> total_tests]

\* mutant of get_user_average_stats: an absent consistency is averaged as 0
get_user_average_stats_absent_as_zero(user_id, mode, mode_value, days) ==
    LET since == now - days * SECONDS_PER_DAY
        matching == {i \in Ids : /\ scores[i].user_id = user_id
                                 /\ scores[i].mode = mode
                                 /\ scores[i].mode_value = mode_value
                                 /\ scores[i].created_at >= since}
        avg_cps == SqlAvg(Column(matching, "cps"))
        avg_accuracy == SqlAvg(Column(matching, "accuracy"))
        avg_consistency ==
            SqlAvg([k \in 1..Cardinality(matching) |->
                        LET r == scores[SortedSeq(matching)[k]]
                        IN IF r.consistency = None THEN F(0) ELSE r.consistency[1]])
        total_tests == Cardinality(matching)
    IN IF total_tests = 0
       THEN [avg_cps |-> F(0), avg_accuracy |-> F(0), avg_consistency |-> F(0),
             total_tests |-> 0]
       ELSE [avg_cps |-> FloatOrZero(avg_cps),
             avg_accuracy |-> FloatOrZero(avg_accuracy),
             avg_consistency |-> FloatOrZero(avg_consistency),
             total_tests |-> total_tests]

(* get_user_average_stats: avg() of the store skips the rows where the      *)
(* column is NULL and is NULL over no row; count(id) counts every row       *)
get_user_average_stats(user_id, mode, mode_value, days) ==
    LET since == now - days * SECONDS_PER_DAY
        matching == {i \in Ids : /\ scores[i].user_id = user_id
                                 /\ scores[i].mode = mode
                                 /\ scores[i].mode_value = mode_value
                                 /\ scores[i].created_at >= since}
        avg_cps == SqlAvg(Column(matching, "cps"))
        avg_accuracy == SqlAvg(Column(matching, "accuracy"))
        avg_consistency ==
            SqlAvg(NotNull(Column({i \in matching : scores[i].consistency # None},
                                  "consistency")))
        total_tests == Cardinality(matching)
    IN IF total_tests = 0
       THEN [avg_cps |-> F(0), avg_accuracy |-> F(0), avg_consistency |-> F(0),
             total_tests |-> 0]
       ELSE [avg_cps |-> FloatOrZero(avg_cps),
             avg_accuracy |-> FloatOrZero(avg_accuracy),
             avg_consistency |-> FloatOrZero(avg_consistency),
             total_tests |-> total_tests]

\* mutant of get_leaderboard: the joined rows are cut to the limit without
\* being ordered
get_leaderboard_unordered(mode, mode_value, limit) ==
    LET matching == {i \in Ids : scores[i].mode = mode /\ scores[i].mode_value = mode_value}
        subquery ==
            {<<scores[i].user_id, scores[i].cps>> : i \in
                {i \in matching :
                    \A j \in matching : scores[j].user_id = scores[i].user_id
                                            => OrderLE(scores[j].cps, scores[i].cps)}}
        joined == {i \in matching : <<scores[i].user_id, scores[i].cps>> \in subquery}
    IN {Limit(a, limit) : a \in Arrangements(joined, Unordered)}

(* get_leaderboard: the subquery has one (user_id, max_cps) per user; the   *)
(* join keeps every row of the mode and mode_value whose cps equals the     *)
(* max_cps of its user; the possible returns, for limit >= 0                *)
get_leaderboard(mode, mode_value, limit) ==
    LET matching == {i \in Ids : scores[i].mode = mode /\ scores[i].mode_value = mode_value}
        subquery ==
            {<<scores[i].user_id, scores[i].cps>> : i \in
                {i \in matching :
                    \A j \in matching : scores[j].user_id = scores[i].user_id
                                            => OrderLE(scores[j].cps, scores[i].cps)}}
        joined == {i \in matching : <<scores[i].user_id, scores[i].cps>> \in subquery}
    IN {Limit(a, limit) : a \in Arrangements(joined, CpsDesc)}

NoBests == [mode_key \in {"time", "clicks"} |-> {}]

(* the loop of get_user_personal_bests over all_scores (keys of rows);      *)
(* bests[mode_key] is the dict result[mode_key], a set of <<value_key, key of row>>   *)
RECURSIVE personal_bests_loop(_, _)
personal_bests_loop(all_scores, bests) ==
    IF all_scores = <<>> THEN bests
    ELSE LET score == scores[Head(all_scores)]
             mode_key == score.mode
             value_key == Str(score.mode_value)
             held == {e \in bests[mode_key] : e[1] = value_key}
             better == \E e \in held : FloatLT(scores[e[2]].cps, score.cps)
         IN personal_bests_loop(
                Tail(all_scores),
                IF held = {} \/ better
                THEN [bests EXCEPT ![mode_key] = (@ \ held) \cup {<<value_key, Head(all_scores)>>}]
                ELSE bests)

\* mutant of get_user_personal_bests: the select has no filter on the user
get_user_personal_bests_all_users(user_id) ==
    {personal_bests_loop(Limit(a, Len(a)), NoBests) : a \in Arrangements(Ids, Unordered)}

(* get_user_personal_bests: the select has no ORDER BY, so the rows come in *)
(* any order; the possible returns                                          *)
get_user_personal_bests(user_id) ==
    {personal_bests_loop(Limit(a, Len(a)), NoBests) :
        a \in Arrangements({i \in Ids : scores[i].user_id = user_id}, Unordered)}

(* ------------------- user operations (user_service.py) ----------------- *)

\* create_user: u stands for the account (its e-mail and the id it is given)
create_user(u) ==
    IF u \in users
    THEN [exc |-> "DuplicateResourceException", users |-> users]
    ELSE [exc |-> "none", users |-> users \cup {u}]

\* mutant of delete_user: the user row is deleted whatever references it
delete_user_unchecked(u) ==
    IF u \notin users
    THEN [exc |-> "ResourceNotFoundException", users |-> users]
    ELSE [exc |-> "none", users |-> users \ {u}]

(* delete_user: db.delete(user) makes the flush set user_id to NULL in the  *)
(* scores of the user (the relationship has no delete cascade), which the   *)
(* NOT NULL column refuses: the commit raises and nothing is deleted        *)
delete_user(u) ==
    IF u \notin users
    THEN [exc |-> "ResourceNotFoundException", users |-> users]
    ELSE IF \E i \in Ids : scores[i].user_id = u
    THEN [exc |-> "IntegrityError", users |-> users]
    ELSE [exc |-> "none", users |-> users \ {u}]

(* ------------- GET /scores/leaderboard (routes/score.py) --------------- *)

\* User.email of the account u
UserEmail(u) == IF u = "u1" THEN "u1@example.com" ELSE "u2@example.com"

\* db.query(User).filter(User.id == user_id).first()
find_user(user_id) == IF user_id \in users THEN Some(user_id) ELSE None

\* the loop of the route over the scores that the service returned: one
\* LeaderboardEntry per score, labelled with the e-mail of the user found
leaderboard_entries(rows) ==
    [k \in 1..Len(rows) |->
        LET user == find_user(scores[rows[k]].user_id)
        IN [score |-> rows[k],
            user_email |-> IF user # None THEN UserEmail(user[1]) ELSE "Unknown"]]

\* mutant of get_leaderboard_route: user.email is read without the
\* fallback, which raises when no user is found
get_leaderboard_route_unguarded(mode, mode_value, limit) ==
    IF limit < 1 \/ limit > 100
    THEN {[exc |-> "RequestValidationError", status_code |-> 422,
           detail |-> <<"limit">>, rows |-> <<>>, entries |-> <<>>]}
    ELSE IF mode \notin {"time", "clicks"}
    THEN {[exc |-> "HTTPException", status_code |-> 400,
           detail |-> <<"Invalid mode">>, rows |-> <<>>, entries |-> <<>>]}
    ELSE {IF \E k \in 1..Len(rows) : find_user(scores[rows[k]].user_id) = None
          THEN [exc |-> "AttributeError", status_code |-> 500,
                detail |-> <<"Internal server error">>, rows |-> <<>>, entries |-> <<>>]
          ELSE [exc |-> "none", status_code |-> 200, detail |-> <<>>,
                rows |-> rows, entries |-> leaderboard_entries(rows)] :
            rows \in get_leaderboard(mode, mode_value, limit)}

(* the route: the possible responses. The query parameter limit is bounded  *)
(* by Query(ge=1, le=100), the mode is checked, the service is called and   *)
(* every score it returns becomes an entry                                  *)
get_leaderboard_route(mode, mode_value, limit) ==
    IF limit < 1 \/ limit > 100
    THEN {[exc |-> "RequestValidationError", status_code |-> 422,
           detail |-> <<"limit">>, rows |-> <<>>, entries |-> <<>>]}
    ELSE IF mode \notin {"time", "clicks"}
    THEN {[exc |-> "HTTPException", status_code |-> 400,
           detail |-> <<"Invalid mode">>, rows |-> <<>>, entries |-> <<>>]}
    ELSE {[exc |-> "none", status_code |-> 200, detail |-> <<>>,
           rows |-> rows, entries |-> leaderboard_entries(rows)] :
            rows \in get_leaderboard(mode, mode_value, limit)}

(* ----------------------------- actions --------------------------------- *)

Finish(p, response) ==
    /\ result' = [result EXCEPT ![p] = response]
    /\ pc' = [pc EXCEPT ![p] = "idle"]
    /\ session' = [session EXCEPT ![p] = None]

\* mutant of Submit: the score is inserted before the body is validated
Submit_insert_first(p, u, raw) ==
    LET score_data == ScoreCreate(raw)
        error == request_validate(score_data)
        new_score == [NewScore(u, score_data) EXCEPT !.id = Len(scores) + 1, !.created_at = now]
    IN /\ pc[p] = "idle"
       /\ Len(scores) + Cardinality(InFlight) < MaxScores
       /\ call' = [call EXCEPT ![p] = Some([user |-> u, body |-> raw])]
       /\ scores' = Append(scores, new_score)
       /\ IF error # None
          THEN Finish(p, error[1])
          ELSE /\ pc' = [pc EXCEPT ![p] = "limit"]
               /\ result' = [result EXCEPT ![p] = NoResult]
               /\ UNCHANGED session
       /\ UNCHANGED <<users, reply, env, now>>

\* mutant of Submit: the rate limit is checked before the body is validated
Submit_limit_first(p, u, raw) ==
    LET score_data == ScoreCreate(raw)
        error == request_validate(score_data)
        refusal == enforce_submission_rate_limit(u)
    IN /\ pc[p] = "idle"
       /\ error # None \/ Len(scores) + Cardinality(InFlight) < MaxScores
       /\ call' = [call EXCEPT ![p] = Some([user |-> u, body |-> raw])]
       /\ IF refusal # None
          THEN Finish(p, refusal[1])
          ELSE IF error # None
          THEN Finish(p, error[1])
          ELSE /\ pc' = [pc EXCEPT ![p] = "limit"]
               /\ result' = [result EXCEPT ![p] = NoResult]
               /\ UNCHANGED session
       /\ UNCHANGED <<users, reply, env, now, scores>>

\* POST /scores arrives for caller u with JSON body raw: the route checks
\* the mode, the service validates and computes the metrics
Submit(p, u, raw) ==
    LET score_data == ScoreCreate(raw)
        error == request_validate(score_data)
    IN /\ pc[p] = "idle"
       /\ error # None \/ Len(scores) + Cardinality(InFlight) < MaxScores
       /\ call' = [call EXCEPT ![p] = Some([user |-> u, body |-> raw])]
       /\ IF error # None
          THEN Finish(p, error[1])
          ELSE /\ pc' = [pc EXCEPT ![p] = "limit"]
               /\ result' = [result EXCEPT ![p] = NoResult]
               /\ UNCHANGED session
       /\ UNCHANGED <<users, reply, env, now, scores>>

\* mutant of EnforceRateLimit: the guard records the submission it checks
\* as a row of the table
EnforceRateLimit_records(p) ==
    LET c == call[p][1]
        error == enforce_submission_rate_limit(c.user)
        new_score == [NewScore(c.user, ScoreCreate(c.body))
                        EXCEPT !.id = Len(scores) + 1, !.created_at = now]
    IN /\ pc[p] = "limit"
       /\ scores' = Append(scores, new_score)
       /\ IF error # None
          THEN Finish(p, error[1])
          ELSE /\ session' = [session EXCEPT ![p] = Some(new_score)]
               /\ pc' = [pc EXCEPT ![p] = "refresh"]
               /\ UNCHANGED result
       /\ UNCHANGED <<users, reply, env, now, call>>

\* the rate-limit guard runs; when it passes, the Score is built and added
\* to the session
EnforceRateLimit(p) ==
    LET c == call[p][1]
        error == enforce_submission_rate_limit(c.user)
    IN /\ pc[p] = "limit"
       /\ IF error # None
          THEN Finish(p, error[1])
          ELSE /\ session' = [session EXCEPT ![p] = Some(NewScore(c.user, ScoreCreate(c.body)))]
               /\ pc' = [pc EXCEPT ![p] = "commit"]
               /\ UNCHANGED result
       /\ UNCHANGED <<users, reply, env, now, scores, call>>

\* the count query of the guard raises; nothing in create_score catches it
RateLimitQueryFails(p) ==
    /\ pc[p] = "limit"
    /\ SCORE_RATE_LIMIT_COUNT # 0 /\ SCORE_RATE_LIMIT_WINDOW # 0
    /\ Finish(p, SQLAlchemyError)
    /\ UNCHANGED <<users, reply, env, now, scores, call>>

\* mutant of Commit: a score of a user, mode and mode_value that the table
\* already holds replaces the row it holds
Commit_upsert(p) ==
    LET held == {i \in 1..Len(scores) :
                    /\ scores[i].user_id = session[p][1].user_id
                    /\ scores[i].mode = session[p][1].mode
                    /\ scores[i].mode_value = session[p][1].mode_value}
        id == IF held = {} THEN Len(scores) + 1 ELSE CHOOSE i \in held : TRUE
        new_score == [session[p][1] EXCEPT !.id = id, !.created_at = now]
    IN /\ pc[p] = "commit"
       /\ new_score.user_id \in users
       /\ scores' = IF held = {} THEN Append(scores, new_score)
                    ELSE [scores EXCEPT ![id] = new_score]
       /\ session' = [session EXCEPT ![p] = Some(new_score)]
       /\ pc' = [pc EXCEPT ![p] = "refresh"]
       /\ UNCHANGED <<users, reply, env, now, call, result>>

\* db.commit() succeeds: the flush fills id and created_at and inserts the
\* row, which the foreign key admits when its user exists
Commit(p) ==
    LET new_score == [session[p][1] EXCEPT !.id = Len(scores) + 1, !.created_at = now]
    IN /\ pc[p] = "commit"
       /\ new_score.user_id \in users
       /\ scores' = Append(scores, new_score)
       /\ session' = [session EXCEPT ![p] = Some(new_score)]
       /\ pc' = [pc EXCEPT ![p] = "refresh"]
       /\ UNCHANGED <<users, reply, env, now, call, result>>

\* mutant of CommitFails: the row stays in the table when the commit raises
CommitFails_partial(p) ==
    LET new_score == [session[p][1] EXCEPT !.id = Len(scores) + 1, !.created_at = now]
    IN /\ pc[p] = "commit"
       /\ scores' = Append(scores, new_score)
       /\ Finish(p, DatabaseOperationException("Unable to record score"))
       /\ UNCHANGED <<users, reply, env, now, call>>

\* db.commit() raises SQLAlchemyError: rollback, DatabaseOperationException
CommitFails(p) ==
    /\ pc[p] = "commit"
    /\ Finish(p, DatabaseOperationException("Unable to record score"))
    /\ UNCHANGED <<users, reply, env, now, scores, call>>

\* db.refresh(new_score) reloads the row; the route answers 201 with it
Refresh(p) ==
    /\ pc[p] = "refresh"
    /\ Finish(p, ScoreResponse(scores[session[p][1].id]))
    /\ UNCHANGED <<users, reply, env, now, scores, call>>

\* db.refresh(new_score) raises; nothing in create_score catches it
RefreshFails(p) ==
    /\ pc[p] = "refresh"
    /\ Finish(p, SQLAlchemyError)
    /\ UNCHANGED <<users, reply, env, now, scores, call>>

\* a second passes
Tick ==
    /\ now < MaxTime
    /\ now' = now + 1
    /\ UNCHANGED <<users, reply, env, scores, pc, call, session, result>>

\* a day passes, after the seconds that the model's clock counts
DayPasses ==
    /\ now = MaxTime
    /\ now' = now + SECONDS_PER_DAY
    /\ UNCHANGED <<users, reply, env, scores, pc, call, session, result>>

(* --------------------- read queries and user operations ---------------- *)

NoStats == [avg_cps |-> F(0), avg_accuracy |-> F(0), avg_consistency |-> F(0), total_tests |-> 0]

\* the operation op called with these arguments (limit also holds days),
\* and what it returned or raised
Reply(op, user_id, mode, mode_value, limit, out, stats, bests) ==
    [op |-> op, user_id |-> user_id, mode |-> mode, mode_value |-> mode_value,
     limit |-> limit, exc |-> out.exc, status_code |-> out.status_code,
     detail |-> out.detail, rows |-> out.rows, stats |-> stats, bests |-> bests,
     entries |-> <<>>]

NoReply == Reply("none", "", None, None, 0, Returns(<<>>), NoStats, NoBests)

Reads(r) ==
    /\ reply' = r
    /\ UNCHANGED <<env, now, scores, pc, call, session, result, users>>

GetUserBestScore(user_id, mode, mode_value) ==
    \E best \in get_user_best_score(user_id, mode, mode_value) :
        Reads(Reply("get_user_best_score", user_id, Some(mode), Some(mode_value), 1,
                    Returns(best), NoStats, NoBests))

GetUserScores(user_id, mode, mode_value, limit) ==
    \E out \in get_user_scores(user_id, mode, mode_value, limit) :
        Reads(Reply("get_user_scores", user_id, mode, mode_value, limit,
                    out, NoStats, NoBests))

GetUserAverageStats(user_id, mode, mode_value, days) ==
    Reads(Reply("get_user_average_stats", user_id, Some(mode), Some(mode_value), days,
                Returns(<<>>), get_user_average_stats(user_id, mode, mode_value, days),
                NoBests))

GetLeaderboard(mode, mode_value, limit) ==
    \E rows \in get_leaderboard(mode, mode_value, limit) :
        Reads(Reply("get_leaderboard", "", Some(mode), Some(mode_value), limit,
                    Returns(rows), NoStats, NoBests))

GetUserPersonalBests(user_id) ==
    \E bests \in get_user_personal_bests(user_id) :
        Reads(Reply("get_user_personal_bests", user_id, None, None, 0,
                    Returns(<<>>), NoStats, bests))

GetLeaderboardRoute(mode, mode_value, limit) ==
    \E out \in get_leaderboard_route(mode, mode_value, limit) :
        Reads([Reply("GET /scores/leaderboard", "", Some(mode), Some(mode_value), limit,
                     out, NoStats, NoBests) EXCEPT !.entries = out.entries])

\* the reply of the last operation has been handed to its caller
ReplyDelivered ==
    /\ reply # NoReply
    /\ reply' = NoReply
    /\ UNCHANGED <<env, now, scores, pc, call, session, result, users>>

UserOperation(op, u, out) ==
    /\ users' = out.users
    /\ reply' = Reply(op, u, None, None, 0,
                      [exc |-> out.exc, status_code |-> 0, detail |-> <<>>, rows |-> <<>>],
                      NoStats, NoBests)
    /\ UNCHANGED <<env, now, scores, pc, call, session, result>>

CreateUser(u) == UserOperation("create_user", u, create_user(u))

DeleteUser(u) == UserOperation("delete_user", u, delete_user(u))

(* ------------------------- inputs of the model ------------------------- *)

Config(max_requests, window_seconds) ==
    [max_requests |-> max_requests, window_seconds |-> window_seconds]

\* the environments explored: both names unset (60 per 60 s); limits of 1
\* and 2 with a window of 1 s or the default window (a value int() rejects,
\* a negative value); the limit or the window set to 0
Environments ==
    {Config(Unset, Unset),
     Config(EnvText(TRUE, 1), EnvText(TRUE, 1)),
     Config(EnvText(TRUE, 2), EnvText(TRUE, 1)),
     Config(EnvText(TRUE, 1), EnvText(FALSE, 0)),
     Config(EnvText(TRUE, 2), EnvText(TRUE, -1)),
     Config(EnvText(TRUE, 0), EnvText(TRUE, 1)),
     Config(EnvText(TRUE, 2), EnvText(TRUE, 0))}

Body(mode, mode_value, total_clicks, correct_clicks, duration, consistency, cps) ==
    [mode |-> mode, mode_value |-> mode_value, total_clicks |-> total_clicks,
     correct_clicks |-> correct_clicks, duration |-> duration,
     consistency |-> consistency, cps |-> cps]

\* bodies of a valid mode and mode_value with the metrics of every shape:
\* each of the four rules on the metrics broken or kept, alone and together
MetricsPayloads ==
    {Body("time", 15, t, c, d, k, None) :
        t \in {-1, 0, 2}, c \in {-1, 0, 1},
        d \in {F(0), F(2), NaN}, k \in {None, Some(F(100)), Some(F(101))}}

\* bodies of every mode and mode_value, with metrics that break the rule on
\* the clicks, on the duration, on the consistency, or none
ModePayloads ==
    {Body(m, v, t, 1, d, k, None) :
        m \in {"time", "clicks", "zen"}, v \in {15, 120, 25, 200, 7},
        t \in {-1, 2}, d \in {F(0), F(2)}, k \in {None, Some(F(101))}}

\* bodies that also carry a cps of the caller's, a key the schema does not declare
ExtraPayloads ==
    {Body(m, v, 2, c, F(2), None, Some(F(9))) :
        m \in {"time", "clicks"}, v \in {15, 25}, c \in {0, 1}}

Payloads == MetricsPayloads \cup ModePayloads \cup ExtraPayloads

\* a few bodies for the runs that fill the table
SmallPayloads ==
    {Body("time", 15, 2, c, F(2), None, None) : c \in {1, 2, 3}}

InitWith(Envs) ==
    /\ env \in Envs
    /\ now = 0
    /\ scores = <<>>
    /\ pc = [p \in Procs |-> "idle"]
    /\ call = [p \in Procs |-> None]
    /\ session = [p \in Procs |-> None]
    /\ result = [p \in Procs |-> NoResult]
    /\ users = Users
    /\ reply = NoReply

(* ----- Spec: one request at a time, two users, every configuration ----- *)

Init == InitWith(Environments)

Next ==
    \/ \E u \in Users, raw \in SmallPayloads : Submit(1, u, raw)
    \/ EnforceRateLimit(1)
    \/ RateLimitQueryFails(1)
    \/ Commit(1)
    \/ CommitFails(1)
    \/ Refresh(1)
    \/ RefreshFails(1)
    \/ Tick

Spec == Init /\ [][Next]_vars

(* -- SpecWide: one caller under a limit of 1 per 60 s, bodies of every shape -- *)

InitWide == InitWith({Config(EnvText(TRUE, 1), Unset)})

NextWide ==
    \/ \E raw \in Payloads : Submit(1, "u1", raw)
    \/ EnforceRateLimit(1)
    \/ RateLimitQueryFails(1)
    \/ Commit(1)
    \/ CommitFails(1)
    \/ Refresh(1)
    \/ RefreshFails(1)

SpecWide == InitWide /\ [][NextWide]_vars

(* -- SpecRace: two concurrent requests of one user, limits of 1 and 2 per second -- *)

InitRace ==
    InitWith({Config(EnvText(TRUE, 1), EnvText(TRUE, 1)),
              Config(EnvText(TRUE, 2), EnvText(TRUE, 1))})

NextRace ==
    \/ \E p \in Procs : Submit(p, "u1", Body("time", 15, 2, 1, F(2), None, None))
    \/ \E p \in Procs : EnforceRateLimit(p)
    \/ \E p \in Procs : RateLimitQueryFails(p)
    \/ \E p \in Procs : Commit(p)
    \/ \E p \in Procs : CommitFails(p)
    \/ \E p \in Procs : Refresh(p)
    \/ \E p \in Procs : RefreshFails(p)
    \/ Tick

SpecRace == InitRace /\ [][NextRace]_vars

(* -------- the specifications of the read queries: two users fill ------- *)
(* -------- the table, and the queries are called on what it holds ------- *)

\* the steps of create_score for the bodies P, taken while no reply is
\* waiting to be handed to its caller
Writes(P) ==
    /\ reply = NoReply
    /\ \/ \E u \in Users, raw \in P : Submit(1, u, raw)
       \/ EnforceRateLimit(1)
       \/ Commit(1)
       \/ Refresh(1)

\* bodies with a cps of 1/2 and of 1, without and with a consistency
ReadPayloads ==
    {Body("time", 15, 2, 1, F(2), None, None),
     Body("time", 15, 2, 2, F(2), Some(F(50)), None)}

\* the mode and mode_value of the queries
ReadModes == {<<"time", 15>>, <<"clicks", 25>>}

InitRead == InitWith({Config(Unset, Unset)})

\* SpecRead: create_score and the five read queries
NextRead ==
    \/ Writes(ReadPayloads)
    \/ reply = NoReply /\ Tick
    \/ ReplyDelivered
    \/ \E u \in Users : GetUserBestScore(u, "time", 15)
    \/ \E mode_value \in {None, Some(15)}, limit \in {0, 2} :
            GetUserScores("u1", Some("time"), mode_value, limit)
    \/ GetUserAverageStats("u1", "time", 15, 1)
    \/ \E limit \in {1, 2} : GetLeaderboard("time", 15, limit)
    \/ \E u \in Users : GetUserPersonalBests(u)

SpecRead == InitRead /\ [][NextRead]_vars

\* bodies with a cps of 1/2 and of 1, of a second mode, and with the
\* duration NaN that the guards let through
BestPayloads ==
    {Body("time", 15, 2, 1, F(2), None, None),
     Body("time", 15, 2, 2, F(2), None, None),
     Body("clicks", 25, 2, 1, F(2), None, None),
     Body("time", 15, 0, 0, NaN, None, None)}

\* SpecBest: create_score and get_user_best_score
NextBest ==
    \/ Writes(BestPayloads)
    \/ reply = NoReply /\ Tick
    \/ ReplyDelivered
    \/ \E u \in Users, q \in ReadModes : GetUserBestScore(u, q[1], q[2])

SpecBest == InitRead /\ [][NextBest]_vars

\* SpecBoard: create_score and get_leaderboard
NextBoard ==
    \/ Writes(BestPayloads)
    \/ reply = NoReply /\ Tick
    \/ ReplyDelivered
    \/ \E q \in ReadModes, limit \in {1, 2} : GetLeaderboard(q[1], q[2], limit)

SpecBoard == InitRead /\ [][NextBoard]_vars

\* bodies of two values of one mode and of a second mode
RecentPayloads ==
    {Body("time", 15, 2, 1, F(2), None, None),
     Body("time", 30, 2, 1, F(2), None, None),
     Body("clicks", 25, 2, 1, F(2), None, None)}

\* SpecRecent: create_score and get_user_scores, with every filter absent,
\* present and 0, and limits below, at and above 0
NextRecent ==
    \/ Writes(RecentPayloads)
    \/ reply = NoReply /\ Tick
    \/ ReplyDelivered
    \/ \E mode \in {None, Some("time")}, mode_value \in {None, Some(15), Some(0)},
          limit \in {1, 2} :
            GetUserScores("u1", mode, mode_value, limit)
    \/ \E limit \in {-1, 0} : GetUserScores("u1", None, None, limit)

SpecRecent == InitRead /\ [][NextRecent]_vars

\* bodies with a cps of 1/2 and of 1, with no consistency and with
\* consistencies of 50 and 100, and of a second mode
StatsPayloads ==
    {Body("time", 15, 2, 1, F(2), None, None),
     Body("time", 15, 2, 2, F(2), Some(F(50)), None),
     Body("time", 15, 2, 1, F(2), Some(F(100)), None),
     Body("clicks", 25, 2, 1, F(2), None, None)}

\* SpecStats: create_score and get_user_average_stats over the last day
NextStats ==
    \/ Writes(StatsPayloads)
    \/ reply = NoReply /\ Tick
    \/ reply = NoReply /\ DayPasses
    \/ ReplyDelivered
    \/ \E q \in ReadModes : GetUserAverageStats("u1", q[1], q[2], 1)

SpecStats == InitRead /\ [][NextStats]_vars

\* SpecBests: create_score, get_user_personal_bests and get_user_best_score
NextBests ==
    \/ Writes(BestPayloads)
    \/ ReplyDelivered
    \/ \E u \in Users : GetUserPersonalBests(u)
    \/ \E u \in Users, q \in ReadModes : GetUserBestScore(u, q[1], q[2])

SpecBests == InitRead /\ [][NextBests]_vars

(* -- SpecUsers: accounts are created and deleted while scores are submitted -- *)

InitUsers ==
    /\ InitWith({Config(Unset, Unset)})

NextUsers ==
    \/ \E u \in users, raw \in SmallPayloads : Submit(1, u, raw)
    \/ EnforceRateLimit(1)
    \/ RateLimitQueryFails(1)
    \/ Commit(1)
    \/ CommitFails(1)
    \/ Refresh(1)
    \/ RefreshFails(1)
    \/ \E u \in Users : CreateUser(u)
    \/ \E u \in Users : DeleteUser(u)

SpecUsers == InitUsers /\ [][NextUsers]_vars

(* -- SpecLabel: GET /scores/leaderboard on the tables as the route may   -- *)
(* -- find them. The route reads the users table with a query of its own   -- *)
(* -- for every score, so the two tables are its inputs: they start from   -- *)
(* -- every pair of a scores table of up to two rows and a users table,    -- *)
(* -- also the pairs in which the user of a score is absent, which         -- *)
(* -- create_score and delete_user themselves never produce                -- *)

StoredRow(id, u, correct_clicks) ==
    [NewScore(u, ScoreCreate(Body("time", 15, 2, correct_clicks, F(2), None, None)))
        EXCEPT !.id = id, !.created_at = 0]

StoredTables ==
    {<<>>}
    \cup {<<StoredRow(1, u, c)>> : u \in Users, c \in {1, 2}}
    \cup {<<StoredRow(1, u, c), StoredRow(2, v, d)>> :
                u \in Users, c \in {1, 2}, v \in Users, d \in {1, 2}}

InitLabel ==
    /\ env = Config(Unset, Unset)
    /\ now = 0
    /\ scores \in StoredTables
    /\ pc = [p \in Procs |-> "idle"]
    /\ call = [p \in Procs |-> None]
    /\ session = [p \in Procs |-> None]
    /\ result = [p \in Procs |-> NoResult]
    /\ users \in SUBSET Users
    /\ reply = NoReply

NextLabel ==
    \/ reply = NoReply /\ \E u \in users, raw \in ReadPayloads : Submit(1, u, raw)
    \/ reply = NoReply /\ EnforceRateLimit(1)
    \/ reply = NoReply /\ Commit(1)
    \/ reply = NoReply /\ Refresh(1)
    \/ ReplyDelivered
    \/ \E mode \in {"time", "zen"}, limit \in {0, 1, 2} : GetLeaderboardRoute(mode, 15, limit)

SpecLabel == InitLabel /\ [][NextLabel]_vars

(* ======================= properties of the claims ====================== *)

\* the request of slot p has been answered
Finished(p) == pc[p] = "idle" /\ call[p] # None

BodyOf(p) == call[p][1].body

UserOf(p) == call[p][1].user

\* the allowed mode values, as the data model of the specification lists them
AllowedSet(mode) ==
    IF mode = "time" THEN {15, 30, 60, 120}
    ELSE IF mode = "clicks" THEN {25, 50, 100, 200}
    ELSE {}

\* the float x is a number (not NaN) with lo <= x <= hi
Within(x, lo, hi) == x[2] > 0 /\ lo * x[2] <= x[1] /\ x[1] <= hi * x[2]

\* the float x is a number (not NaN) greater than 0
Positive(x) == x[2] > 0 /\ x[1] > 0

WellFormed(b) ==
    /\ b.total_clicks >= 0
    /\ b.correct_clicks >= 0
    /\ b.correct_clicks <= b.total_clicks
    /\ Positive(b.duration)
    /\ b.consistency = None \/ Within(b.consistency[1], 0, 100)

\* the request of slot p was answered 201 with a stored row of its caller and body
Succeeded(p) ==
    /\ result[p].status_code = 201
    /\ result[p].score \in 1..Len(scores)
    /\ LET row == scores[result[p].score]
       IN /\ row.user_id = UserOf(p)
          /\ row.mode = BodyOf(p).mode
          /\ row.mode_value = BodyOf(p).mode_value

RefusedByLimiter(p) == result[p].exc = "TooManyRequestsException"

StoreFailed(p) == result[p].exc \in {"DatabaseOperationException", "SQLAlchemyError"}

Violated(b) ==
    {i \in 1..6 :
        \/ i = 1 /\ b.mode \notin {"time", "clicks"}
        \/ i = 2 /\ b.mode \in {"time", "clicks"} /\ b.mode_value \notin AllowedSet(b.mode)
        \/ i = 3 /\ (b.total_clicks < 0 \/ b.correct_clicks < 0)
        \/ i = 4 /\ b.correct_clicks > b.total_clicks
        \/ i = 5 /\ ~Positive(b.duration)
        \/ i = 6 /\ b.consistency # None /\ ~Within(b.consistency[1], 0, 100)}

FirstViolated(b) == CHOOSE i \in Violated(b) : \A j \in Violated(b) : i <= j

RuleError(i) ==
    IF i = 1 THEN <<"HTTPException", "Invalid mode. Must be 'time' or 'clicks'">>
    ELSE IF i = 2 THEN <<"InvalidInputScoreException", "Invalid mode_value">>
    ELSE IF i = 3 THEN <<"InvalidScoreMetricsException", "Clicks must be non-negative">>
    ELSE IF i = 4 THEN <<"InvalidScoreMetricsException", "Correct clicks cannot exceed total clicks">>
    ELSE IF i = 5 THEN <<"InvalidScoreMetricsException", "Duration must be greater than zero">>
    ELSE <<"InvalidScoreMetricsException", "Consistency must be between 0 and 100">>

ValidationErrors ==
    {"HTTPException", "InvalidInputScoreException", "InvalidScoreMetricsException"}

\* C2: a request that breaks one or more of the six rules is answered 400
\* with the error of the first rule it breaks, in the order mode, mode_value,
\* clicks non-negative, correct <= total, duration, consistency; a request
\* that breaks none is not answered with a validation error.
C2_FirstViolatedRuleWins ==
    \A p \in Procs :
        Finished(p) =>
            IF Violated(BodyOf(p)) = {}
            THEN result[p].exc \notin ValidationErrors
            ELSE /\ result[p].status_code = 400
                 /\ result[p].exc = RuleError(FirstViolated(BodyOf(p)))[1]
                 /\ result[p].detail[1] = RuleError(FirstViolated(BodyOf(p)))[2]

\* C9: every stored score has mode time or clicks, a mode_value of the
\* allowed set of its mode, 0 <= correct_clicks <= total_clicks, duration > 0
\* and a consistency that is absent or within 0..100.
C9_StoredScoresAreValid ==
    \A r \in Rows :
        /\ r.mode \in {"time", "clicks"}
        /\ r.mode_value \in AllowedSet(r.mode)
        /\ 0 <= r.correct_clicks
        /\ r.correct_clicks <= r.total_clicks
        /\ Positive(r.duration)
        /\ r.consistency = None \/ Within(r.consistency[1], 0, 100)

\* the float x is the integer a divided by the integer b
RatioIs(x, a, b) == x[2] > 0 /\ x[1] * b = a * x[2]

\* the float x is the integer a divided by the float y (NaN when y is NaN)
QuotientIs(x, a, y) ==
    IF y[2] = 0 THEN x[2] = 0
    ELSE x[2] > 0 /\ x[1] * y[1] = a * y[2] * x[2]

\* C10: every stored score has cps = correct_clicks / duration, and
\* accuracy = correct_clicks / total_clicks * 100 when total_clicks > 0 and
\* 0 when total_clicks = 0, both from the counters of the same row; a cps
\* sent by the caller is never what is stored.
C10_MetricsAreRecomputed ==
    /\ \A r \in Rows :
        /\ QuotientIs(r.cps, r.correct_clicks, r.duration)
        /\ r.total_clicks > 0 => RatioIs(r.accuracy, r.correct_clicks * 100, r.total_clicks)
        /\ r.total_clicks = 0 => RatioIs(r.accuracy, 0, 1)
    /\ \A p \in Procs :
        (Finished(p) /\ Succeeded(p) /\ BodyOf(p).cps # None) =>
            LET row == scores[result[p].score]
            IN /\ QuotientIs(row.cps, BodyOf(p).correct_clicks, BodyOf(p).duration)
               /\ row.cps # BodyOf(p).cps[1]

\* witness of C10: the caller sent cps = 9 with one correct click in two
\* seconds, and the stored row has cps 1/2 and accuracy 50
C10_Witness ==
    /\ Finished(1) /\ Succeeded(1)
    /\ BodyOf(1).cps = Some(F(9))
    /\ scores[result[1].score].cps = <<1, 2>>
    /\ scores[result[1].score].accuracy = <<50, 1>>

\* the request of slot p is answered in this step
Answered(p) == pc'[p] = "idle" /\ (pc[p] # "idle" \/ call'[p] # call[p])

\* a request of slot p arrives in this step
Arrives(p) == pc[p] = "idle" /\ (pc'[p] = "limit" \/ call'[p] # call[p])

\* the rows of table tbl that user u has with created_at >= t
RowsSince(tbl, u, t) ==
    {i \in 1..Len(tbl) : tbl[i].user_id = u /\ tbl[i].created_at >= t}

\* the number of scores that u stored in the last SCORE_RATE_LIMIT_WINDOW seconds
Recent(u) ==
    Cardinality({i \in 1..Len(scores) :
        scores[i].user_id = u /\ now - scores[i].created_at <= SCORE_RATE_LIMIT_WINDOW})

LimitConfigured == SCORE_RATE_LIMIT_COUNT > 0 /\ SCORE_RATE_LIMIT_WINDOW > 0

\* C3: a request that ends with a validation error or with
\* RateLimitExceeded has written nothing: the step that answers it leaves the
\* table as it is and the request holds no score to write, and the table
\* changes only in the commit of a request that passed both.
C3_FailureWritesNothing ==
    [][ /\ \A p \in Procs :
            (Answered(p) /\ result'[p].exc \in ValidationErrors \cup {"TooManyRequestsException"}) =>
                /\ scores' = scores
                /\ pc[p] \in {"idle", "limit"}
                /\ session[p] = None /\ session'[p] = None
        /\ scores' # scores =>
            \E p \in Procs : pc[p] = "commit" /\ pc'[p] = "refresh"
      ]_vars

\* witness of C3: a request was refused with 429 while the table holds rows
C3_Witness ==
    /\ Finished(1)
    /\ result[1].exc = "TooManyRequestsException"
    /\ Len(scores) > 0
    /\ session[1] = None

\* C4: with limit C > 0 and window W > 0, a request that reaches the
\* rate-limit check is admitted when its user stored fewer than C scores in
\* the last W seconds, and is refused with RateLimitExceeded carrying
\* retry_after = W when the user stored C or more: of C+1 well-formed
\* submissions within W seconds the first C are admitted and the (C+1)-th is
\* refused.
C4_LimitOfCPerWindow ==
    [][ \A p \in Procs :
            (/\ pc[p] = "limit" /\ pc'[p] # "limit"
             /\ result'[p].exc # "SQLAlchemyError"
             /\ LimitConfigured) =>
                IF Recent(UserOf(p)) >= SCORE_RATE_LIMIT_COUNT
                THEN /\ pc'[p] = "idle"
                     /\ result'[p].exc = "TooManyRequestsException"
                     /\ result'[p].status_code = 429
                     /\ result'[p].retry_after = Some(SCORE_RATE_LIMIT_WINDOW)
                     /\ scores' = scores
                ELSE pc'[p] = "commit"
      ]_vars

\* witness of C4: with C = 2, the table holds exactly the two scores that u1
\* stored in the window, and u1's third submission was refused with
\* retry_after = W
C4_Witness ==
    /\ LimitConfigured
    /\ SCORE_RATE_LIMIT_COUNT = 2
    /\ Len(scores) = 2
    /\ \A i \in 1..2 : scores[i].user_id = "u1" /\ now - scores[i].created_at <= SCORE_RATE_LIMIT_WINDOW
    /\ Finished(1) /\ UserOf(1) = "u1" /\ WellFormed(BodyOf(1))
    /\ result[1].exc = "TooManyRequestsException"
    /\ result[1].retry_after = Some(SCORE_RATE_LIMIT_WINDOW)

ZeroText == [set |-> TRUE, parses |-> TRUE, value |-> 0]

\* C5: when SCORE_SUBMISSION_MAX_REQUESTS or SCORE_SUBMISSION_WINDOW_SECONDS
\* is set to 0, no request is ever answered RateLimitExceeded.
C5_ZeroDisablesTheLimit ==
    (env.max_requests = ZeroText \/ env.window_seconds = ZeroText) =>
        \A p \in Procs : result[p].exc # "TooManyRequestsException"
                         /\ result[p].status_code # 429

\* witness of C5: the limit is set to 0 with a window of 1 s, and a user who
\* already had two scores in the window had a third one stored
C5_Witness ==
    /\ env.max_requests = ZeroText
    /\ env.window_seconds # ZeroText
    /\ Finished(1) /\ Succeeded(1)
    /\ Cardinality(RowsSince(scores, UserOf(1), now)) >= 3

\* C6: the step of the rate-limit check, passing or refusing, changes
\* neither the table nor the clock nor the configuration nor another
\* request; the number of rows that a check counts for a user changes only
\* by the commit of a request of that user, which adds one row.
C6_LimiterIsReadOnly ==
    [][ /\ \A p \in Procs :
            (pc[p] = "limit" /\ pc'[p] # "limit") =>
                /\ scores' = scores /\ env' = env /\ now' = now
                /\ \A q \in Procs \ {p} :
                        /\ pc'[q] = pc[q] /\ call'[q] = call[q]
                        /\ session'[q] = session[q] /\ result'[q] = result[q]
        /\ \A u \in Users : \A t \in 0..now :
            RowsSince(scores', u, t) # RowsSince(scores, u, t) =>
                \E p \in Procs :
                    /\ pc[p] = "commit" /\ pc'[p] = "refresh"
                    /\ UserOf(p) = u
                    /\ Len(scores') = Len(scores) + 1
                    /\ SubSeq(scores', 1, Len(scores)) = scores
      ]_vars

\* witness of C6: a check has passed (its request holds the score to insert)
\* and the table still holds only the row that was there before
C6_Witness ==
    /\ pc[1] = "commit"
    /\ LimitConfigured
    /\ Len(scores) = 1
    /\ scores[1].user_id = UserOf(1)
    /\ session[1] # None

\* C7: the check counts committed rows only and an admitted request always
\* inserts: a request is admitted whenever its user has fewer than C
\* committed scores in the window, also while another admitted request of
\* the same user has not committed yet, and a request that was admitted
\* either inserts its row or fails with PersistenceError; so two requests
\* that both pass the check before either commits leave more than C rows in
\* one window (the witness).
C7_CheckThenInsertIsNotAtomic ==
    [][ \A p \in Procs :
            /\ (/\ pc[p] = "limit" /\ pc'[p] # "limit"
                /\ result'[p].exc # "SQLAlchemyError"
                /\ LimitConfigured
                /\ Recent(UserOf(p)) < SCORE_RATE_LIMIT_COUNT) => pc'[p] = "commit"
            /\ (pc[p] = "commit" /\ pc'[p] # "commit") =>
                \/ /\ pc'[p] = "refresh"
                   /\ Len(scores') = Len(scores) + 1
                   /\ scores'[Len(scores')].user_id = UserOf(p)
                   /\ scores'[Len(scores')].created_at = now
                \/ /\ pc'[p] = "idle"
                   /\ result'[p].exc = "DatabaseOperationException"
                   /\ scores' = scores
      ]_vars

\* witness of C7: both requests were answered with their rows, which were
\* stored at the same instant, and the user has more than C scores in the window
C7_Witness ==
    /\ LimitConfigured
    /\ Finished(1) /\ Succeeded(1)
    /\ Finished(2) /\ Succeeded(2)
    /\ UserOf(1) = UserOf(2)
    /\ result[1].score # result[2].score
    /\ Recent(UserOf(1)) > SCORE_RATE_LIMIT_COUNT

\* the validation of the route and the service rejects body b
Rejected(b) == request_validate(ScoreCreate(b)) # None

\* C8: the steps of a request are in order. On arrival the body is
\* validated: a body that the validation rejects is answered at once with
\* its validation error, however many scores its caller has, and only a
\* body that passed goes on to the rate-limit check, with nothing built or
\* written yet. RateLimitExceeded comes from the check alone; the score is
\* handed to the commit only by a check that passed; the table changes only
\* in that commit.
C8_ValidateThenLimitThenInsert ==
    [][ /\ \A p \in Procs :
            /\ Arrives(p) =>
                IF Rejected(call'[p][1].body)
                THEN /\ pc'[p] = "idle"
                     /\ result'[p].exc \in ValidationErrors
                     /\ result'[p].status_code = 400
                ELSE /\ pc'[p] = "limit"
                     /\ session'[p] = None
                     /\ scores' = scores
            /\ (Answered(p) /\ result'[p].exc = "TooManyRequestsException") =>
                /\ pc[p] = "limit"
                /\ ~Rejected(BodyOf(p))
            /\ (pc'[p] = "commit" /\ pc[p] # "commit") =>
                /\ pc[p] = "limit"
                /\ ~LimitConfigured \/ Recent(UserOf(p)) < SCORE_RATE_LIMIT_COUNT
        /\ scores' # scores =>
            \E p \in Procs : pc[p] = "commit" /\ pc'[p] = "refresh"
      ]_vars

\* witness of C8: a caller who is over the limit sent an invalid body and
\* was answered with the validation error
C8_Witness ==
    /\ LimitConfigured
    /\ Finished(1)
    /\ Recent(UserOf(1)) >= SCORE_RATE_LIMIT_COUNT
    /\ Rejected(BodyOf(1))
    /\ Violated(BodyOf(1)) = {3, 4, 5, 6}
    /\ result[1].exc = "InvalidScoreMetricsException"

\* the read queries of the score service
ReadQueries ==
    {"get_user_scores", "get_user_best_score", "get_user_average_stats",
     "get_leaderboard", "get_user_personal_bests"}

\* a read query returns in this step
QueryReturns == reply' # reply /\ reply'.op \in ReadQueries

\* C11: scores are append-only. In every step of create_score and of the
\* five read queries, every row that exists stays where it is with all its
\* fields as they are: the table after the step begins with the table
\* before it, and a read query leaves the table exactly as it is.
C11_ScoresAreAppendOnly ==
    [][ /\ Len(scores') >= Len(scores)
        /\ \A i \in 1..Len(scores) : scores'[i] = scores[i]
        /\ QueryReturns => scores' = scores
      ]_vars

\* witness of C11: the table holds two or more rows, of which a later one
\* is of the user, mode and mode_value of an earlier one, and a read query
\* has returned a row of it
C11_Witness ==
    /\ \E i, j \in 1..Len(scores) :
            /\ i < j
            /\ scores[i].user_id = scores[j].user_id
            /\ scores[i].mode = scores[j].mode
            /\ scores[i].mode_value = scores[j].mode_value
    /\ reply.op = "get_user_personal_bests"
    /\ reply.bests["time"] # {}

\* C12: every stored score references a user that exists.
C12_EveryScoreHasItsUser ==
    \A i \in 1..Len(scores) : scores[i].user_id \in users

\* witness of C12: one user has been deleted, and the deletion of the other,
\* who owns a score, was refused
C12_Witness ==
    /\ users # Users
    /\ reply.op = "delete_user"
    /\ reply.exc = "IntegrityError"
    /\ reply.user_id \in users
    /\ \E i \in 1..Len(scores) : scores[i].user_id = reply.user_id

\* the keys of the rows of user u with mode m and mode_value v
RowsOf(u, m, v) ==
    {i \in 1..Len(scores) :
        scores[i].user_id = u /\ scores[i].mode = m /\ scores[i].mode_value = v}

\* x = y on floats: two numbers (neither is NaN) that are equal
FloatEQ(x, y) == x[2] > 0 /\ y[2] > 0 /\ x[1] * y[2] = y[1] * x[2]

\* C13: get_user_best_score returns None when the user has no row of the
\* mode and mode_value; otherwise it returns one row of that user, mode and
\* mode_value, no matching row has a greater cps, and of the matching rows
\* with the same cps it is the one created last.
C13_BestIsLatestOfTheMaximum ==
    reply.op = "get_user_best_score" =>
        LET matching == RowsOf(reply.user_id, reply.mode[1], reply.mode_value[1])
        IN IF matching = {}
           THEN reply.rows = None
           ELSE /\ Len(reply.rows) = 1
                /\ reply.rows[1] \in matching
                /\ \A j \in matching :
                    /\ ~FloatLT(scores[reply.rows[1]].cps, scores[j].cps)
                    /\ FloatEQ(scores[j].cps, scores[reply.rows[1]].cps)
                        => scores[j].created_at <= scores[reply.rows[1]].created_at

\* the same read query is called again, with the table as it was
CalledAgain ==
    /\ reply.op \in ReadQueries
    /\ reply'.op = reply.op
    /\ reply'.user_id = reply.user_id
    /\ reply'.mode = reply.mode
    /\ reply'.mode_value = reply.mode_value
    /\ reply'.limit = reply.limit
    /\ scores' = scores

\* C14: get_user_best_score called again with the same arguments and no
\* write in between returns the same row, also when rows of the user tie on
\* the greatest cps.
C14_BestScoreIsRepeatable ==
    [][ (CalledAgain /\ reply.op = "get_user_best_score") => reply'.rows = reply.rows ]_vars

\* the keys of the rows of mode m and mode_value v
RowsOfMode(m, v) ==
    {i \in 1..Len(scores) : scores[i].mode = m /\ scores[i].mode_value = v}

\* the rows that the leaderboard in reply returned
Entries == {reply.rows[k] : k \in 1..Len(reply.rows)}

\* C15: get_leaderboard returns one row per distinct user: no two entries
\* are of the same user, every entry is a row of the mode and mode_value
\* than which its user has no row of a greater cps, and a user with a row
\* of the mode and mode_value is missing only because the limit was reached.
C15_OneEntryPerUser ==
    reply.op = "get_leaderboard" =>
        LET matching == RowsOfMode(reply.mode[1], reply.mode_value[1])
        IN /\ \A k, l \in 1..Len(reply.rows) :
                k # l => scores[reply.rows[k]].user_id # scores[reply.rows[l]].user_id
           /\ \A i \in Entries :
                /\ i \in matching
                /\ \A j \in matching :
                    scores[j].user_id = scores[i].user_id
                        => ~FloatLT(scores[i].cps, scores[j].cps)
           /\ Len(reply.rows) < reply.limit =>
                \A j \in matching : \E i \in Entries : scores[i].user_id = scores[j].user_id

\* C16: get_leaderboard returns at most limit entries, all of the mode and
\* mode_value asked for, with no entry of a greater cps after one of a
\* smaller cps; and the cut keeps the top: no user who is left out has a
\* row of the mode and mode_value with a cps greater than that of an entry.
C16_LeaderboardIsTheTopInOrder ==
    reply.op = "get_leaderboard" =>
        LET matching == RowsOfMode(reply.mode[1], reply.mode_value[1])
        IN /\ Len(reply.rows) <= reply.limit
           /\ Entries \subseteq matching
           /\ \A k, l \in 1..Len(reply.rows) :
                k < l => ~FloatLT(scores[reply.rows[k]].cps, scores[reply.rows[l]].cps)
           /\ \A j \in matching :
                (\A i \in Entries : scores[i].user_id # scores[j].user_id)
                    => \A i \in Entries : ~FloatLT(scores[i].cps, scores[j].cps)

\* witness of C16: a leaderboard of limit 1 holds the row of the user with
\* the greater cps and leaves out the other user, who has a row of the mode
\* and mode_value too
C16_Witness ==
    /\ reply.op = "get_leaderboard"
    /\ reply.limit = 1
    /\ Len(reply.rows) = 1
    /\ \E j \in RowsOfMode(reply.mode[1], reply.mode_value[1]) :
            /\ scores[j].user_id # scores[reply.rows[1]].user_id
            /\ FloatLT(scores[j].cps, scores[reply.rows[1]].cps)

\* the keys of the rows of user u that pass the filters: mode and
\* mode_value are None or the value that the rows must have
RowsFiltered(u, mode, mode_value) ==
    {i \in 1..Len(scores) :
        /\ scores[i].user_id = u
        /\ mode # None => scores[i].mode = mode[1]
        /\ mode_value # None => scores[i].mode_value = mode_value[1]}

\* C17: get_user_scores with limit > 0 returns rows of the user only, of
\* the mode when a mode is given, of the mode_value when a mode_value is
\* given (0 too); no entry is older than a later one; there are at most
\* limit entries, as many as limit or as there are matching rows, and no
\* matching row that is left out is more recent than an entry.
C17_RecentScoresOfTheFilter ==
    (reply.op = "get_user_scores" /\ reply.limit > 0) =>
        LET matching == RowsFiltered(reply.user_id, reply.mode, reply.mode_value)
        IN /\ reply.exc = "none"
           /\ Entries \subseteq matching
           /\ \A k, l \in 1..Len(reply.rows) :
                k < l => /\ reply.rows[k] # reply.rows[l]
                         /\ scores[reply.rows[k]].created_at >= scores[reply.rows[l]].created_at
           /\ Len(reply.rows) <= reply.limit
           /\ Len(reply.rows) = reply.limit \/ Len(reply.rows) = Cardinality(matching)
           /\ \A j \in matching \ Entries : \A i \in Entries :
                scores[j].created_at <= scores[i].created_at

\* C18: get_user_scores with limit <= 0 raises the invalid-input error
\* (400) and returns no row, whatever the table holds.
C18_LimitMustBePositive ==
    (reply.op = "get_user_scores" /\ reply.limit <= 0) =>
        /\ reply.exc = "InvalidScoreMetricsException"
        /\ reply.status_code = 400
        /\ reply.detail = <<"Limit must be greater than zero">>
        /\ reply.rows = <<>>

\* witness of C18: the user has scores, and the call with limit 0 raised
C18_Witness ==
    /\ reply.op = "get_user_scores"
    /\ reply.limit = 0
    /\ reply.exc = "InvalidScoreMetricsException"
    /\ RowsFiltered(reply.user_id, reply.mode, reply.mode_value) # {}

\* the instant since of the statistics in reply (reply.limit holds days)
Since == now - reply.limit * SECONDS_PER_DAY

\* the keys of the rows that the statistics in reply are about
RowsOfStats ==
    {i \in RowsOf(reply.user_id, reply.mode[1], reply.mode_value[1]) :
        scores[i].created_at >= Since}

\* C19: get_user_average_stats returns as total_tests the number of rows of
\* the user, mode and mode_value with created_at >= since; when there is
\* none, it returns 0.0 for the three averages and 0 for total_tests.
C19_TotalTestsCountsTheWindow ==
    reply.op = "get_user_average_stats" =>
        /\ reply.stats.total_tests = Cardinality(RowsOfStats)
        /\ RowsOfStats = {} =>
            /\ reply.stats.avg_cps = F(0)
            /\ reply.stats.avg_accuracy = F(0)
            /\ reply.stats.avg_consistency = F(0)
            /\ reply.stats.total_tests = 0

\* witness of C19: a day after the first scores, the user has a matching
\* row created before since, which is not counted, and one created at
\* since, which is
C19_Witness ==
    /\ reply.op = "get_user_average_stats"
    /\ Since > 0
    /\ \E i \in RowsOf(reply.user_id, reply.mode[1], reply.mode_value[1]) :
            scores[i].created_at < Since
    /\ \E i \in RowsOfStats : scores[i].created_at = Since
    /\ reply.stats.total_tests = Cardinality(RowsOfStats)

\* the sum of the floats xs (numbers), as <<numerator, denominator>>
RECURSIVE Total(_)
Total(xs) ==
    IF xs = <<>> THEN <<0, 1>>
    ELSE LET t == Total(Tail(xs))
         IN <<Head(xs)[1] * t[2] + t[1] * Head(xs)[2], Head(xs)[2] * t[2]>>

\* the float x is the arithmetic mean of the floats xs (one or more numbers)
MeanIs(x, xs) == x[2] > 0 /\ x[1] * Total(xs)[2] * Len(xs) = Total(xs)[1] * x[2]

\* the values of field f in the rows S
FieldValues(S, f) == [k \in 1..Cardinality(S) |-> scores[SortedSeq(S)[k]][f]]

\* C20: over one or more matching rows, avg_cps and avg_accuracy are the
\* arithmetic means of cps and accuracy over all of them, total_tests
\* counts all of them, and avg_consistency is the arithmetic mean of the
\* consistency over the rows that have one, 0.0 when none has.
C20_AveragesSkipAbsentConsistency ==
    (reply.op = "get_user_average_stats" /\ RowsOfStats # {}) =>
        LET present == {i \in RowsOfStats : scores[i].consistency # None}
        IN /\ MeanIs(reply.stats.avg_cps, FieldValues(RowsOfStats, "cps"))
           /\ MeanIs(reply.stats.avg_accuracy, FieldValues(RowsOfStats, "accuracy"))
           /\ reply.stats.total_tests = Cardinality(RowsOfStats)
           /\ IF present = {}
              THEN reply.stats.avg_consistency = F(0)
              ELSE MeanIs(reply.stats.avg_consistency,
                          [k \in 1..Cardinality(present) |->
                                scores[SortedSeq(present)[k]].consistency[1]])

\* witness of C20: of three matching rows one has no consistency and the
\* others have 50 and 100; the statistics count three tests and average the
\* consistency to 75 and the cps to 2/3
C20_Witness ==
    /\ reply.op = "get_user_average_stats"
    /\ reply.stats.total_tests = 3
    /\ \E i \in RowsOfStats : scores[i].consistency = None
    /\ reply.stats.avg_consistency = F(75)
    /\ reply.stats.avg_cps = <<2, 3>>

\* the key of the inner mapping for the mode values that can be stored
DecimalKey(v) ==
    CASE v = 15 -> "15" [] v = 30 -> "30" [] v = 60 -> "60" [] v = 120 -> "120"
      [] v = 25 -> "25" [] v = 50 -> "50" [] v = 100 -> "100" [] v = 200 -> "200"

\* the mode values of which user u has a row of mode m
ValuesOf(u, m) ==
    {scores[i].mode_value : i \in {i \in 1..Len(scores) :
                                        scores[i].user_id = u /\ scores[i].mode = m}}

\* C21: get_user_personal_bests returns a mapping with the two keys "time"
\* and "clicks"; the inner mapping of a mode has the key str(mode_value),
\* once, exactly for the mode values of which the user has a row of the mode.
C21_PersonalBestsKeys ==
    reply.op = "get_user_personal_bests" =>
        /\ DOMAIN reply.bests = {"time", "clicks"}
        /\ \A m \in {"time", "clicks"} :
            /\ {e[1] : e \in reply.bests[m]} = {DecimalKey(v) : v \in ValuesOf(reply.user_id, m)}
            /\ \A e, f \in reply.bests[m] : e[1] = f[1] => e = f

\* witness of C21: the user has rows of time/15 only, and the mapping
\* returned has the one key "15" under "time" and nothing under "clicks"
C21_Witness ==
    /\ reply.op = "get_user_personal_bests"
    /\ ValuesOf(reply.user_id, "time") = {15}
    /\ ValuesOf(reply.user_id, "clicks") = {}
    /\ {e[1] : e \in reply.bests["time"]} = {"15"}
    /\ reply.bests["clicks"] = {}
    /\ \E i \in 1..Len(scores) : scores[i].user_id # reply.user_id /\ scores[i].mode = "clicks"

\* C22: every entry that get_user_personal_bests returns is a row of the
\* user and of the mode and mode_value of its key, and its cps is the
\* maximum of the user's rows of that mode and mode_value: it is greater
\* than or equal to the cps of each other of them.
C22_PersonalBestIsTheMaximum ==
    reply.op = "get_user_personal_bests" =>
        \A m \in {"time", "clicks"} : \A e \in reply.bests[m] :
            /\ e[2] \in 1..Len(scores)
            /\ scores[e[2]].user_id = reply.user_id
            /\ scores[e[2]].mode = m
            /\ DecimalKey(scores[e[2]].mode_value) = e[1]
            /\ \A j \in RowsOf(reply.user_id, m, scores[e[2]].mode_value) \ {e[2]} :
                    FloatLE(scores[j].cps, scores[e[2]].cps)

\* C29: get_user_personal_bests and get_user_best_score agree: whatever
\* each of them returns for a user, the entry of a mode and mode_value is
\* absent from the personal bests exactly when get_user_best_score returns
\* None, and otherwise the two rows have the same cps.
C29_PersonalBestsAgreeWithBestScore ==
    \A u \in Users : \A q \in ReadModes :
        \A best \in get_user_best_score(u, q[1], q[2]) :
            \A bests \in get_user_personal_bests(u) :
                LET entry == {e \in bests[q[1]] : e[1] = DecimalKey(q[2])}
                IN /\ entry = {} <=> best = None
                   /\ \A e \in entry : scores[e[2]].cps = scores[best[1]].cps

\* C23: a request that ends because the store failed, in the count query
\* of the rate limit, in the commit or in the refresh, ends with
\* PersistenceError (DatabaseOperationException, 500): no raw error of the
\* store comes out of create_score.
C23_StoreFailuresArePersistenceErrors ==
    \A p \in Procs :
        (Finished(p) /\ StoreFailed(p)) =>
            /\ result[p].exc = "DatabaseOperationException"
            /\ result[p].status_code = 500

\* C24: the insert is all or nothing and is attempted once. The step that
\* leaves the commit either appends the one row of the request and goes on
\* to the refresh, or leaves the table as it was, drops the session's score
\* and answers PersistenceError; a request reaches the commit only from its
\* rate-limit check, never again after a commit that failed.
C24_InsertIsAllOrNothing ==
    [][ \A p \in Procs :
            /\ (pc[p] = "commit" /\ pc'[p] # "commit") =>
                \/ /\ pc'[p] = "refresh"
                   /\ scores' = Append(scores, [session[p][1] EXCEPT
                                    !.id = Len(scores) + 1, !.created_at = now])
                \/ /\ pc'[p] = "idle"
                   /\ scores' = scores
                   /\ session'[p] = None
                   /\ result'[p] = DatabaseOperationException("Unable to record score")
                   /\ result'[p].status_code = 500
            /\ (pc'[p] = "commit" /\ pc[p] # "commit") =>
                /\ pc[p] = "limit"
                /\ result[p] = NoResult
      ]_vars

\* witness of C24: the commit of a request failed: it was answered
\* PersistenceError, and the table holds only the row stored before it
C24_Witness ==
    /\ Finished(1)
    /\ result[1].exc = "DatabaseOperationException"
    /\ session[1] = None
    /\ Len(scores) = 1
    /\ scores[1].created_at < now

\* the rows of user u that a check at this instant counts
Counted(u) == RowsSince(scores, u, now - SCORE_RATE_LIMIT_WINDOW)

\* the rows of user u stored more than SCORE_RATE_LIMIT_WINDOW seconds ago
Expired(u) ==
    {i \in 1..Len(scores) :
        scores[i].user_id = u /\ now - scores[i].created_at > SCORE_RATE_LIMIT_WINDOW}

\* the rate-limit check of slot p runs to its end in this step
Checks(p) ==
    /\ pc[p] = "limit" /\ pc'[p] # "limit"
    /\ result'[p].exc # "SQLAlchemyError"
    /\ LimitConfigured

\* C26: the window slides. A check refuses exactly when the rows of the
\* user with created_at >= now - W are C or more; a row stored more than W
\* seconds ago is not among them, so a user whose rows are all older than W
\* is admitted however many they are.
C26_WindowSlides ==
    [][ \A p \in Procs :
            Checks(p) =>
                /\ Counted(UserOf(p)) \cap Expired(UserOf(p)) = {}
                /\ result'[p].exc = "TooManyRequestsException"
                        <=> Cardinality(Counted(UserOf(p))) >= SCORE_RATE_LIMIT_COUNT
                /\ Counted(UserOf(p)) = {} => pc'[p] = "commit"
      ]_vars

\* witness of C26: a user who filled the limit at second 0 had a further
\* score stored at second 2, after the window of 1 s had passed
C26_Witness ==
    /\ LimitConfigured
    /\ Finished(1) /\ Succeeded(1)
    /\ scores[result[1].score].created_at = now
    /\ Cardinality(Expired(UserOf(1))) >= SCORE_RATE_LIMIT_COUNT
    /\ Counted(UserOf(1)) = {result[1].score}

\* the request of slot p has committed its row
Persisted(p) ==
    /\ session[p] # None
    /\ session[p][1].id \in 1..Len(scores)
    /\ scores[session[p][1].id] = session[p][1]

\* C27: a create_score that fails, with a validation error, with
\* RateLimitExceeded or because the store failed, has stored no row, so it
\* does not change what a later check counts: the step that answers it
\* leaves the table as it is and its request has committed nothing.
C27_FailedSubmissionsLeaveTheCount ==
    [][ \A p \in Procs :
            (Answered(p) /\ result'[p].status_code # 201) =>
                /\ scores' = scores
                /\ ~Persisted(p)
      ]_vars

\* C28: the rate limit is per user. A check refuses only a user who has C
\* or more rows of their own in the window and admits a user who has fewer,
\* whatever the other users stored; and the commit of a user's row leaves
\* the rows that count for every other user as they were.
C28_LimitIsPerUser ==
    [][ \A p \in Procs :
            /\ Checks(p) =>
                LET own == {i \in 1..Len(scores) :
                                /\ scores[i].user_id = UserOf(p)
                                /\ scores[i].created_at >= now - SCORE_RATE_LIMIT_WINDOW}
                IN IF Cardinality(own) < SCORE_RATE_LIMIT_COUNT
                   THEN pc'[p] = "commit"
                   ELSE result'[p].exc = "TooManyRequestsException"
            /\ (pc[p] = "commit" /\ pc'[p] = "refresh") =>
                \A a \in Users \ {UserOf(p)} :
                    {scores'[i] : i \in {j \in 1..Len(scores') : scores'[j].user_id = a}}
                        = {scores[i] : i \in {j \in 1..Len(scores) : scores[j].user_id = a}}
      ]_vars

\* witness of C28: u2 has filled the limit in the window, and a score of u1
\* submitted after that was stored
C28_Witness ==
    /\ LimitConfigured
    /\ Finished(1) /\ Succeeded(1) /\ UserOf(1) = "u1"
    /\ LET before == {i \in Counted("u2") : i < result[1].score}
       IN Cardinality(before) >= SCORE_RATE_LIMIT_COUNT
    /\ now - scores[result[1].score].created_at <= SCORE_RATE_LIMIT_WINDOW

\* C25: GET /scores/leaderboard with a mode and a limit that pass answers
\* 200 with one entry for every score that get_leaderboard returned, in its
\* order, also when the user of a score is not found: the entry of such a
\* score is labelled "Unknown", and the entry of a score whose user is found
\* is labelled with the e-mail of that user.
C25_UnknownOwnerIsLabelled ==
    reply.op = "GET /scores/leaderboard" =>
        /\ (reply.mode[1] \in {"time", "clicks"} /\ reply.limit \in 1..100)
                => reply.status_code = 200
        /\ reply.status_code = 200 =>
            /\ reply.rows \in get_leaderboard(reply.mode[1], reply.mode_value[1], reply.limit)
            /\ Len(reply.entries) = Len(reply.rows)
            /\ \A k \in 1..Len(reply.rows) :
                LET owner == scores[reply.rows[k]].user_id
                IN /\ reply.entries[k].score = reply.rows[k]
                   /\ owner \notin users => reply.entries[k].user_email = "Unknown"
                   /\ owner \in users =>
                        /\ reply.entries[k].user_email = UserEmail(owner)
                        /\ reply.entries[k].user_email # "Unknown"

\* witness of C25: the leaderboard has two entries, the first of a score
\* whose user is not found, labelled "Unknown", and the second labelled
\* with the e-mail of its user
C25_Witness ==
    /\ reply.op = "GET /scores/leaderboard"
    /\ reply.status_code = 200
    /\ Len(reply.entries) = 2
    /\ scores[reply.rows[1]].user_id \notin users
    /\ reply.entries[1].user_email = "Unknown"
    /\ scores[reply.rows[2]].user_id \in users
    /\ reply.entries[2].user_email = UserEmail(scores[reply.rows[2]].user_id)

\* the rows that the per-user query in reply returned
Returned ==
    {reply.rows[k] : k \in 1..Len(reply.rows)}
        \cup {e[2] : e \in reply.bests["time"] \cup reply.bests["clicks"]}

\* the rows of user u, as a set of records
OwnRows(u) == {scores[i] : i \in {j \in 1..Len(scores) : scores[j].user_id = u}}

\* the statistics st are those of the rows S: their number and the means of
\* their cps, accuracy and consistency (over the rows that have one)
StatsAreOf(st, S) ==
    LET present == {i \in S : scores[i].consistency # None}
    IN /\ st.total_tests = Cardinality(S)
       /\ S # {} => /\ MeanIs(st.avg_cps, FieldValues(S, "cps"))
                    /\ MeanIs(st.avg_accuracy, FieldValues(S, "accuracy"))
                    /\ present = {} => st.avg_consistency = F(0)
                    /\ present # {} =>
                            MeanIs(st.avg_consistency,
                                   NotNull(FieldValues(present, "consistency")))

\* C30: the per-user queries are isolated by owner. Every row that
\* get_user_best_score, get_user_scores or get_user_personal_bests returns
\* for a user is a row of that user, and the statistics of a user are those
\* of the user's own rows of the mode and mode_value in the period; the step
\* in which create_score commits a row of a user leaves the rows of every
\* other user and the clock as they were, and with them what
\* get_user_best_score, get_user_scores and get_user_personal_bests can
\* return for every other user.
C30_PerUserQueriesAreIsolated ==
    [][ /\ (reply' # reply /\ reply'.op \in {"get_user_best_score", "get_user_scores",
                                             "get_user_personal_bests"}) =>
                \A i \in Returned' : i \in 1..Len(scores) /\ scores[i].user_id = reply'.user_id
        /\ (reply' # reply /\ reply'.op = "get_user_average_stats") =>
                StatsAreOf(reply'.stats,
                           {i \in RowsOf(reply'.user_id, reply'.mode[1], reply'.mode_value[1]) :
                                scores[i].created_at >= now - reply'.limit * SECONDS_PER_DAY})
        /\ \A p \in Procs :
            (pc[p] = "commit" /\ pc'[p] = "refresh" /\ Len(scores') = Len(scores) + 1) =>
                \A a \in Users \ {scores'[Len(scores')].user_id} :
                    /\ OwnRows(a)' = OwnRows(a)
                    /\ now' = now
                    /\ \A q \in ReadModes :
                        get_user_best_score(a, q[1], q[2])' = get_user_best_score(a, q[1], q[2])
                    /\ \A mode \in {None, Some("time")}, mode_value \in {None, Some(15)} :
                        get_user_scores(a, mode, mode_value, 2)'
                                = get_user_scores(a, mode, mode_value, 2)
                    /\ get_user_personal_bests(a)' = get_user_personal_bests(a)
      ]_vars

\* witness of C30: u1 is answered with its personal bests, which hold a row
\* of u1, after u2 has stored a row later than every row of u1
C30_Witness ==
    /\ reply.op = "get_user_personal_bests"
    /\ reply.user_id = "u1"
    /\ Returned # {}
    /\ \A i \in Returned : scores[i].user_id = "u1"
    /\ \E j \in 1..Len(scores) :
            /\ scores[j].user_id = "u2"
            /\ \A i \in 1..Len(scores) : scores[i].user_id = "u1" => i < j

====
